---- MODULE Spec2Model ----
(***************************************************************************)
(* A model of the Glean Rust language bindings (glean-core/rlb/src/lib.rs) *)
(* and of the FFI upload task layer (glean-core/ffi/src/upload.rs).        *)
(*                                                                         *)
(* Spec        : initialize, startup threads, dispatcher, public API calls *)
(* LiveSpec    : Spec with the worker and the mutex holders scheduled      *)
(* LockSpec    : LiveSpec with the mutex waiters scheduled                 *)
(* StartupSpec : one startup thread, statement by statement                *)
(* UploadSpec  : the upload task protocol and its FFI values               *)
(* ConvSpec    : one task converted for the boundary                       *)
(* EncSpec     : the scalar encoding of an upload result                   *)
(***************************************************************************)
EXTENDS Integers, Sequences, FiniteSets, TLC

\* ------------------------------------------------------------------ bounds
NumCallers == 2     \* number of threads calling the public mutating API
MaxOps == 2         \* number of public mutating API calls in a run

\* The calls of initialize() in a run, each from a thread of its own: two, which
\* is what the race between the check (lib.rs 123) and the store (lib.rs 231)
\* takes, and what a second call after the first has returned takes.
InitCalls == {1, 2}
Callers == 1 .. NumCallers

\* ------------------------------------------------------------------- state
VARIABLES
    INITIALIZE_CALLED,  \* the AtomicBool of lib.rs
    STATE_CELL,         \* STATE: the OnceCell<Mutex<RustBindingsState>> of lib.rs
    GLEAN,              \* glean_core's global engine (global_glean / setup_glean)
    gleanLock,          \* holder of the engine mutex: {} or {thread}
    stateLock,          \* holder of the STATE mutex: {} or {thread}
    ipc,                \* position of each initialize() call
    spc,                \* position of the startup thread each call spawned
    queue,              \* the dispatcher's queue: operations admitted, not yet taken
    queueState,         \* "Buffering" | "Draining" | "Passthrough"
    flushedAt,          \* number of operations admitted when flush_init succeeded
    wpc,                \* position of the dispatcher's worker
    cur,                \* the operation the worker is executing
    admitted,           \* history: every operation launched, in admission order
    executed,           \* history: index (in admitted) of every operation run, in order
    calls,              \* history: number of calls made of each public mutating function
    called,             \* history: whether each caller thread has made a call
    \* -- the upload task protocol and its FFI layer (UploadSpec)
    pending,            \* the ping store's queue of document ids ready for upload
    enqueued,           \* number of pings submitted to the store so far
    unreported,         \* per document id: Upload tasks returned and not yet reported
    tasks,              \* every FfiPingUploadTask value made, in the order made
    heap,               \* every buffer allocated: its bytes and how often it was freed
    \* -- the scalar encoding of an upload result (EncSpec)
    status,             \* the upload result to be passed over the boundary
    encoded,            \* its u32 encoding
    \* -- one conversion of a task for the boundary (ConvSpec)
    conv,               \* the task, and the value and heap its conversion left
    \* -- one startup thread, statement by statement (StartupSpec)
    run                 \* its position, locals, engine and the calls it has made

rlbVars == <<INITIALIZE_CALLED, STATE_CELL, GLEAN, gleanLock, stateLock, ipc, spc, queue,
             queueState, flushedAt, wpc, cur, admitted, executed, calls, called>>
uploadVars == <<pending, enqueued, unreported, tasks, heap>>
encVars == <<status, encoded>>
auxVars == <<conv, run>>
ffiVars == <<uploadVars, encVars, auxVars>>
vars == <<rlbVars, uploadVars, encVars, auxVars>>

\* ----------------------------------------------------------------- values
Startup(i) == <<"startup", i>>
Worker == <<"worker", 0>>

\* Option::None of STATE and of the global engine.
NoState == [set |-> FALSE, channel |-> 0, client_info |-> 0]
NoGlean == [set |-> FALSE, upload |-> FALSE, dirty |-> FALSE, builtins |-> FALSE, custom |-> FALSE,
            core_metrics |-> 0]
NoOp == [kind |-> "none", caller |-> 0, enabled |-> FALSE, idx |-> 0]

\* RustBindingsState { channel: cfg.channel, client_info } of call i.
RustBindingsState(i) == [set |-> TRUE, channel |-> i, client_info |-> i]

\* Glean::new(core_cfg): a fresh engine; upload_enabled comes from cfg, the dirty
\* flag from the data directory.
NewGlean(upload, dirty) ==
    [set |-> TRUE, upload |-> upload, dirty |-> dirty, builtins |-> FALSE,
     custom |-> FALSE, core_metrics |-> 0]

\* ------------------------------------------------------------- initialize
\* lib.rs 239-241
was_initialize_called == INITIALIZE_CALLED

\* lib.rs 123-128: the check at the head of initialize() and, when the flag is
\* still false, std::thread::spawn of the startup sequence. Calls are
\* interchangeable until they start, so they start in the order of their numbers.
InitCheck(i) ==
    /\ UNCHANGED ffiVars
    /\ ipc[i] = "idle"
    /\ \A j \in InitCalls : j < i => ipc[j] # "idle"
    /\ IF was_initialize_called
         THEN /\ ipc' = [ipc EXCEPT ![i] = "rejected"]       \* 124-125
              /\ spc' = spc
         ELSE /\ ipc' = [ipc EXCEPT ![i] = "store"]
              /\ spc' = [spc EXCEPT ![i] = "new"]            \* 128
    /\ UNCHANGED <<INITIALIZE_CALLED, STATE_CELL, GLEAN, gleanLock, stateLock, queue,
                   queueState, flushedAt, wpc, cur, admitted, executed, calls, called>>

\* initialize() returning without the store of lib.rs 231.
InitStore_NoStore(i) ==
    /\ UNCHANGED ffiVars
    /\ ipc[i] = "store"
    /\ ipc' = [ipc EXCEPT ![i] = "returned"]
    /\ UNCHANGED <<INITIALIZE_CALLED, STATE_CELL, GLEAN, gleanLock, stateLock, spc, queue,
                   queueState, flushedAt, wpc, cur, admitted, executed, calls, called>>

\* lib.rs 231 storing the flag's negation instead of true.
InitStore_Toggle(i) ==
    /\ UNCHANGED ffiVars
    /\ ipc[i] = "store"
    /\ INITIALIZE_CALLED' = ~INITIALIZE_CALLED
    /\ ipc' = [ipc EXCEPT ![i] = "returned"]
    /\ UNCHANGED <<STATE_CELL, GLEAN, gleanLock, stateLock, spc, queue,
                   queueState, flushedAt, wpc, cur, admitted, executed, calls, called>>

\* lib.rs 229-232: the store of the flag, and the return of initialize().
InitStore(i) ==
    /\ UNCHANGED ffiVars
    /\ ipc[i] = "store"
    /\ INITIALIZE_CALLED' = TRUE
    /\ ipc' = [ipc EXCEPT ![i] = "returned"]
    /\ UNCHANGED <<STATE_CELL, GLEAN, gleanLock, stateLock, spc, queue,
                   queueState, flushedAt, wpc, cur, admitted, executed, calls, called>>

\* --------------------------------------------------------- startup thread
\* glean_core::setup_glean(glean): publishes the engine, replacing under the
\* engine mutex one already published.
setup_glean(glean) ==
    /\ GLEAN.set => gleanLock = {}
    /\ GLEAN' = glean

\* lib.rs 129-149 with flush_init called at the head of the startup thread
\* instead of at its end.
GleanNew_FlushFirst(i) ==
    /\ UNCHANGED ffiVars
    /\ spc[i] = "new"
    /\ IF queueState = "Buffering"
         THEN /\ queueState' = IF queue = <<>> THEN "Passthrough" ELSE "Draining"
              /\ flushedAt' = Len(admitted)
         ELSE UNCHANGED <<queueState, flushedAt>>
    /\ \/ /\ spc' = [spc EXCEPT ![i] = "failed"]
          /\ GLEAN' = GLEAN
       \/ \E upload \in BOOLEAN, dirty \in BOOLEAN :
            /\ setup_glean(NewGlean(upload, dirty))
            /\ spc' = [spc EXCEPT ![i] = "setup_state"]
    /\ UNCHANGED <<INITIALIZE_CALLED, STATE_CELL, gleanLock, stateLock, ipc, queue,
                   wpc, cur, admitted, executed, calls, called>>

\* lib.rs 129-149: Glean::new(core_cfg) and setup_glean(glean); the thread
\* returns when either is Err.
GleanNew(i) ==
    /\ UNCHANGED ffiVars
    /\ spc[i] = "new"
    /\ \/ /\ spc' = [spc EXCEPT ![i] = "failed"]               \* 142, 148
          /\ GLEAN' = GLEAN
       \/ \E upload \in BOOLEAN, dirty \in BOOLEAN :
            /\ setup_glean(NewGlean(upload, dirty))            \* 138, 147
            /\ spc' = [spc EXCEPT ![i] = "setup_state"]
    /\ UNCHANGED <<INITIALIZE_CALLED, STATE_CELL, gleanLock, stateLock, ipc, queue,
                   queueState, flushedAt, wpc, cur, admitted, executed, calls, called>>

\* lib.rs 87: if STATE.get().is_none()
SetupStateCheck(i) ==
    /\ UNCHANGED ffiVars
    /\ spc[i] = "setup_state"
    /\ spc' = [spc EXCEPT ![i] = IF ~STATE_CELL.set THEN "state_set" ELSE "state_lock"]
    /\ UNCHANGED <<INITIALIZE_CALLED, STATE_CELL, GLEAN, gleanLock, stateLock, ipc, queue,
                   queueState, flushedAt, wpc, cur, admitted, executed, calls, called>>

\* lib.rs 88: STATE.set(Mutex::new(state)).unwrap(); OnceCell::set is Err when
\* the cell was filled since the check, and the unwrap then panics.
SetupStateSet(i) ==
    /\ UNCHANGED ffiVars
    /\ spc[i] = "state_set"
    /\ IF ~STATE_CELL.set
         THEN /\ STATE_CELL' = RustBindingsState(i)
              /\ spc' = [spc EXCEPT ![i] = "block"]
         ELSE /\ STATE_CELL' = STATE_CELL
              /\ spc' = [spc EXCEPT ![i] = "panicked"]
    /\ UNCHANGED <<INITIALIZE_CALLED, GLEAN, gleanLock, stateLock, ipc, queue,
                   queueState, flushedAt, wpc, cur, admitted, executed, calls, called>>

\* lib.rs 90-92 with the guard of the STATE mutex leaked instead of dropped.
SetupStateReplace_GuardKept(i) ==
    /\ UNCHANGED ffiVars
    /\ spc[i] = "state_lock"
    /\ stateLock = {}
    /\ stateLock' = {Startup(i)}
    /\ STATE_CELL' = RustBindingsState(i)
    /\ spc' = [spc EXCEPT ![i] = "block"]
    /\ UNCHANGED <<INITIALIZE_CALLED, GLEAN, gleanLock, ipc, queue,
                   queueState, flushedAt, wpc, cur, admitted, executed, calls, called>>

\* lib.rs 90-92: the STATE mutex taken, *lock = state, the guard dropped.
SetupStateReplace(i) ==
    /\ UNCHANGED ffiVars
    /\ spc[i] = "state_lock"
    /\ stateLock = {}
    /\ STATE_CELL' = RustBindingsState(i)
    /\ spc' = [spc EXCEPT ![i] = "block"]
    /\ UNCHANGED <<INITIALIZE_CALLED, GLEAN, gleanLock, stateLock, ipc, queue,
                   queueState, flushedAt, wpc, cur, admitted, executed, calls, called>>

\* lib.rs 243-267: sets the core metrics from the client info and the channel.
initialize_core_metrics(g, s) == [g EXCEPT !.core_metrics = s.client_info]

\* lib.rs 162-220: the body of the startup closure; is_first_run is the engine's
\* answer to glean.is_first_run() (187).
StartupBlock(g, s, is_first_run) ==
    LET g1 == [g EXCEPT !.dirty = FALSE]                 \* 169-170
        g2 == [g1 EXCEPT !.builtins = TRUE]              \* 177-179
        g3 == IF is_first_run THEN initialize_core_metrics(g2, s) ELSE g2
                                                         \* 188-190
        g4 == IF ~is_first_run                           \* 217-220
                THEN initialize_core_metrics([g3 EXCEPT !.core_metrics = 0], s)
                ELSE g3
    IN  g4

\* lib.rs 99-100, 108-109: with_glean / with_glean_mut take the engine mutex.
with_glean_lock(t) ==
    /\ gleanLock = {}
    /\ gleanLock' = {t}

\* lib.rs 161: with_glean_mut(|glean| ...
BlockLockGlean(i) ==
    /\ UNCHANGED ffiVars
    /\ spc[i] = "block"
    /\ with_glean_lock(Startup(i))
    /\ spc' = [spc EXCEPT ![i] = "block_state"]
    /\ UNCHANGED <<INITIALIZE_CALLED, STATE_CELL, GLEAN, stateLock, ipc, queue,
                   queueState, flushedAt, wpc, cur, admitted, executed, calls, called>>

\* lib.rs 162: let state = global_state().lock().unwrap();
BlockLockState(i) ==
    /\ UNCHANGED ffiVars
    /\ spc[i] = "block_state"
    /\ stateLock = {}
    /\ stateLock' = {Startup(i)}
    /\ spc' = [spc EXCEPT ![i] = "block_body"]
    /\ UNCHANGED <<INITIALIZE_CALLED, STATE_CELL, GLEAN, gleanLock, ipc, queue,
                   queueState, flushedAt, wpc, cur, admitted, executed, calls, called>>

\* The startup closure with its engine guard leaked instead of dropped.
BlockBody_GuardKept(i) ==
    /\ UNCHANGED ffiVars
    /\ spc[i] = "block_body"
    /\ \E is_first_run \in BOOLEAN : GLEAN' = StartupBlock(GLEAN, STATE_CELL, is_first_run)
    /\ stateLock' = {}
    /\ UNCHANGED gleanLock
    /\ spc' = [spc EXCEPT ![i] = "flush"]
    /\ UNCHANGED <<INITIALIZE_CALLED, STATE_CELL, ipc, queue,
                   queueState, flushedAt, wpc, cur, admitted, executed, calls, called>>

\* lib.rs 164-221: the body, then both guards dropped.
BlockBody(i) ==
    /\ UNCHANGED ffiVars
    /\ spc[i] = "block_body"
    /\ \E is_first_run \in BOOLEAN : GLEAN' = StartupBlock(GLEAN, STATE_CELL, is_first_run)
    /\ stateLock' = {}
    /\ gleanLock' = {}
    /\ spc' = [spc EXCEPT ![i] = "flush"]
    /\ UNCHANGED <<INITIALIZE_CALLED, STATE_CELL, ipc, queue,
                   queueState, flushedAt, wpc, cur, admitted, executed, calls, called>>

\* dispatcher::flush_init(): Buffering -> Draining (Passthrough when nothing is
\* buffered); an error, and no change, when the queue is already flushed.
flush_init ==
    IF queueState = "Buffering"
      THEN /\ queueState' = IF queue = <<>> THEN "Passthrough" ELSE "Draining"
           /\ flushedAt' = Len(admitted)
      ELSE UNCHANGED <<queueState, flushedAt>>

\* lib.rs 223-226 with the error of flush_init unwrapped instead of logged.
FlushInit_Unwrap(i) ==
    /\ UNCHANGED ffiVars
    /\ spc[i] = "flush"
    /\ flush_init
    /\ spc' = [spc EXCEPT ![i] = IF queueState = "Buffering" THEN "flush_wait" ELSE "panicked"]
    /\ UNCHANGED <<INITIALIZE_CALLED, STATE_CELL, GLEAN, gleanLock, stateLock, ipc, queue,
                   wpc, cur, admitted, executed, calls, called>>

\* lib.rs 223-226: flush_init is called and its error only logged.
FlushInit(i) ==
    /\ UNCHANGED ffiVars
    /\ spc[i] = "flush"
    /\ flush_init
    /\ spc' = [spc EXCEPT ![i] = IF queueState = "Buffering" THEN "flush_wait" ELSE "done"]
    /\ UNCHANGED <<INITIALIZE_CALLED, STATE_CELL, GLEAN, gleanLock, stateLock, ipc, queue,
                   wpc, cur, admitted, executed, calls, called>>

\* flush_init returns once every buffered operation has run.
FlushReturn(i) ==
    /\ UNCHANGED ffiVars
    /\ spc[i] = "flush_wait"
    /\ queueState = "Passthrough"
    /\ spc' = [spc EXCEPT ![i] = "done"]
    /\ UNCHANGED <<INITIALIZE_CALLED, STATE_CELL, GLEAN, gleanLock, stateLock, ipc, queue,
                   queueState, flushedAt, wpc, cur, admitted, executed, calls, called>>

\* -------------------------------------------------------------- public API
\* dispatcher::launch(task): the task is appended to the dispatcher's queue.
launch(op) ==
    /\ queue' = Append(queue, op)
    /\ admitted' = Append(admitted, op)

Kinds == {"set_upload_enabled", "register_ping_type", "submit_ping_by_name"}
TotalCalls ==
    calls["set_upload_enabled"] + calls["register_ping_type"] + calls["submit_ping_by_name"]

\* Caller threads are interchangeable until their first call, so they make it
\* in the order of their numbers.
MayCall(c) ==
    /\ TotalCalls < MaxOps
    /\ \A d \in Callers : d < c => called[d]

\* The operation a call of `kind` by caller c submits.
Op(kind, c, enabled) ==
    [kind |-> kind, caller |-> c, enabled |-> enabled, idx |-> Len(admitted) + 1]

\* set_upload_enabled without the check of lib.rs 273-280.
set_upload_enabled_Unchecked(c, enabled) ==
    /\ UNCHANGED ffiVars
    /\ MayCall(c)
    /\ calls' = [calls EXCEPT !["set_upload_enabled"] = @ + 1]
    /\ called' = [called EXCEPT ![c] = TRUE]
    /\ launch(Op("set_upload_enabled", c, enabled))
    /\ UNCHANGED <<INITIALIZE_CALLED, STATE_CELL, GLEAN, gleanLock, stateLock, ipc, spc,
                   queueState, flushedAt, wpc, cur, executed>>

\* set_upload_enabled with the test of lib.rs 273 negated.
set_upload_enabled_Inverted(c, enabled) ==
    /\ UNCHANGED ffiVars
    /\ MayCall(c)
    /\ calls' = [calls EXCEPT !["set_upload_enabled"] = @ + 1]
    /\ called' = [called EXCEPT ![c] = TRUE]
    /\ IF was_initialize_called
         THEN UNCHANGED <<queue, admitted>>
         ELSE launch(Op("set_upload_enabled", c, enabled))
    /\ UNCHANGED <<INITIALIZE_CALLED, STATE_CELL, GLEAN, gleanLock, stateLock, ipc, spc,
                   queueState, flushedAt, wpc, cur, executed>>

\* lib.rs 272-306
set_upload_enabled(c, enabled) ==
    /\ UNCHANGED ffiVars
    /\ MayCall(c)
    /\ calls' = [calls EXCEPT !["set_upload_enabled"] = @ + 1]
    /\ called' = [called EXCEPT ![c] = TRUE]
    /\ IF ~was_initialize_called
         THEN UNCHANGED <<queue, admitted>>                  \* 273-280: log, return
         ELSE launch(Op("set_upload_enabled", c, enabled))   \* 288
    /\ UNCHANGED <<INITIALIZE_CALLED, STATE_CELL, GLEAN, gleanLock, stateLock, ipc, spc,
                   queueState, flushedAt, wpc, cur, executed>>

\* lib.rs 309-316
register_ping_type(c) ==
    /\ UNCHANGED ffiVars
    /\ MayCall(c)
    /\ calls' = [calls EXCEPT !["register_ping_type"] = @ + 1]
    /\ called' = [called EXCEPT ![c] = TRUE]
    /\ launch(Op("register_ping_type", c, FALSE))
    /\ UNCHANGED <<INITIALIZE_CALLED, STATE_CELL, GLEAN, gleanLock, stateLock, ipc, spc,
                   queueState, flushedAt, wpc, cur, executed>>

\* submit_ping_by_name running its closure on the caller's thread instead of
\* handing it to dispatcher::launch.
submit_ping_by_name_Sync(c) ==
    /\ UNCHANGED ffiVars
    /\ MayCall(c)
    /\ calls' = [calls EXCEPT !["submit_ping_by_name"] = @ + 1]
    /\ called' = [called EXCEPT ![c] = TRUE]
    /\ admitted' = Append(admitted, Op("submit_ping_by_name", c, FALSE))
    /\ executed' = Append(executed, Len(admitted) + 1)
    /\ UNCHANGED <<INITIALIZE_CALLED, STATE_CELL, GLEAN, gleanLock, stateLock, ipc, spc,
                   queue, queueState, flushedAt, wpc, cur>>

\* lib.rs 328-334
submit_ping_by_name(c) ==
    /\ UNCHANGED ffiVars
    /\ MayCall(c)
    /\ calls' = [calls EXCEPT !["submit_ping_by_name"] = @ + 1]
    /\ called' = [called EXCEPT ![c] = TRUE]
    /\ launch(Op("submit_ping_by_name", c, FALSE))
    /\ UNCHANGED <<INITIALIZE_CALLED, STATE_CELL, GLEAN, gleanLock, stateLock, ipc, spc,
                   queueState, flushedAt, wpc, cur, executed>>

\* ------------------------------------------------------ dispatcher worker
\* The closures of lib.rs 289-304, 312-314 and 332, applied to the engine.
RunOp(op, g, s) ==
    IF op.kind = "set_upload_enabled"
      THEN LET old_enabled == g.upload                          \* 291
               g1 == [g EXCEPT !.upload = op.enabled]           \* 292
           IN  IF ~old_enabled /\ op.enabled                    \* 297-301
                 THEN initialize_core_metrics(g1, s)
                 ELSE g1
      ELSE IF op.kind = "register_ping_type"
             THEN [g EXCEPT !.custom = TRUE]                    \* 313
             ELSE g                                             \* 332

\* Whether every operation buffered before the flush has run.
Drained(ex) == \A k \in 1 .. flushedAt : \E n \in 1 .. Len(ex) : ex[n] = k

\* The worker takes the oldest operation once the queue is flushed; the
\* operation starts with with_glean / with_glean_mut (lib.rs 99-100, 108-109):
\* a panic when no engine is published, else the engine mutex.
WorkerTake ==
    /\ UNCHANGED ffiVars
    /\ wpc = "idle"
    /\ queueState # "Buffering"
    /\ queue # <<>>
    /\ IF ~GLEAN.set
         THEN /\ wpc' = "panicked"
              /\ UNCHANGED gleanLock
         ELSE /\ with_glean_lock(Worker)
              /\ wpc' = IF Head(queue).kind = "set_upload_enabled"
                          THEN "lock_state" ELSE "run"
    /\ cur' = Head(queue)
    /\ queue' = Tail(queue)
    /\ UNCHANGED <<INITIALIZE_CALLED, STATE_CELL, GLEAN, stateLock, ipc, spc,
                   queueState, flushedAt, admitted, executed, calls, called>>

\* lib.rs 290 reading STATE without taking its mutex.
WorkerLockState_Unlocked ==
    /\ UNCHANGED ffiVars
    /\ wpc = "lock_state"
    /\ IF ~STATE_CELL.set
         THEN wpc' = "panicked"
         ELSE wpc' = "run"
    /\ UNCHANGED <<INITIALIZE_CALLED, STATE_CELL, GLEAN, gleanLock, stateLock, ipc, spc, queue,
                   queueState, flushedAt, cur, admitted, executed, calls, called>>

\* lib.rs 290: let state = global_state().lock().unwrap(); (82: the unwrap
\* panics when STATE is unset).
WorkerLockState ==
    /\ UNCHANGED ffiVars
    /\ wpc = "lock_state"
    /\ IF ~STATE_CELL.set
         THEN /\ wpc' = "panicked"
              /\ UNCHANGED stateLock
         ELSE /\ stateLock = {}
              /\ stateLock' = {Worker}
              /\ wpc' = "run"
    /\ UNCHANGED <<INITIALIZE_CALLED, STATE_CELL, GLEAN, gleanLock, ipc, spc, queue,
                   queueState, flushedAt, cur, admitted, executed, calls, called>>

\* The closure's body runs and its guards are dropped; the queue leaves
\* Draining once the buffered operations have all run.
WorkerRun ==
    /\ UNCHANGED ffiVars
    /\ wpc = "run"
    /\ GLEAN' = RunOp(cur, GLEAN, STATE_CELL)
    /\ gleanLock' = {}
    /\ stateLock' = stateLock \ {Worker}
    /\ executed' = Append(executed, cur.idx)
    /\ queueState' = IF queueState = "Draining" /\ Drained(executed')
                       THEN "Passthrough" ELSE queueState
    /\ cur' = NoOp
    /\ wpc' = "idle"
    /\ UNCHANGED <<INITIALIZE_CALLED, STATE_CELL, ipc, spc, queue,
                   flushedAt, admitted, calls, called>>

\* --------------------------------------- upload task protocol, FFI layer
MaxDocs == 2        \* number of pings submitted to the ping store in a run
MaxPolls == 3       \* number of calls of poll_next_task in a run

Docs == 1 .. MaxDocs

\* Whether byte b occurs in the byte string s.
Contains(s, b) == \E n \in 1 .. Len(s) : s[n] = b

\* serde_json writes a NUL character of a string as the six bytes \u0000.
RECURSIVE Escape(_)
Escape(v) ==
    IF v = <<>> THEN <<>>
    ELSE (IF Head(v) = 0 THEN <<92, 117, 48, 48, 48, 48>> ELSE <<Head(v)>>) \o Escape(Tail(v))

\* serde_json::to_string of a JSON value with content v: "{" v "}", escaped.
to_json_string(v) == <<123>> \o Escape(v) \o <<125>>

\* The upload request of ping d: a document id and a path of its own, its body,
\* and headers that are the same for every ping.
Request(d) ==
    [document_id |-> <<48 + d>>, path |-> <<47, 48 + d>>, body |-> <<48 + d>>,
     headers |-> <<104>>]
NoRequest == [document_id |-> <<>>, path |-> <<>>, body |-> <<>>, headers |-> <<>>]

\* glean_core::upload::PingUploadTask
Upload(request) == [tag |-> "Upload", request |-> request]
Wait == [tag |-> "Wait", request |-> NoRequest]
Done == [tag |-> "Done", request |-> NoRequest]

\* upload.rs 35-44: FfiPingUploadTask; a pointer is a buffer's index in heap,
\* 0 the null pointer.
FfiUpload(document_id, path, body, headers) ==
    [tag |-> "Upload", document_id |-> document_id, path |-> path, body |-> body,
     headers |-> headers]
FfiWait == [tag |-> "Wait", document_id |-> 0, path |-> 0, body |-> 0, headers |-> 0]
FfiDone == [tag |-> "Done", document_id |-> 0, path |-> 0, body |-> 0, headers |-> 0]

\* upload.rs 96-98
ffi_default == FfiDone

\* CString::new(s): Err on an interior NUL byte, else the bytes and a final NUL.
CStringNew(s) ==
    IF Contains(s, 0) THEN [ok |-> FALSE, bytes |-> <<>>]
                      ELSE [ok |-> TRUE, bytes |-> s \o <<0>>]

\* CString::into_raw: the buffer is handed out, to be freed by its new owner.
into_raw(h, cstring) == Append(h, [data |-> cstring.bytes, frees |-> 0])

\* CStr::from_ptr(p): the bytes of buffer p up to its NUL.
CStrFromPtr(h, p) == SubSeq(h[p].data, 1, Len(h[p].data) - 1)

\* upload.rs 60-63 with the fields mixed up: document_id is given the buffer
\* made for the headers.
From_FieldsMixed(task, h) ==
    IF task.tag = "Upload"
      THEN LET document_id == CStringNew(task.request.document_id)
               path == CStringNew(task.request.path)
               body == CStringNew(to_json_string(task.request.body))
               headers == CStringNew(to_json_string(task.request.headers))
               h1 == into_raw(h, document_id)
               h2 == into_raw(h1, path)
               h3 == into_raw(h2, body)
               h4 == into_raw(h3, headers)
           IN  IF document_id.ok /\ path.ok /\ body.ok /\ headers.ok
                 THEN [ok |-> TRUE, heap |-> h4,
                       value |-> FfiUpload(Len(h4), Len(h2), Len(h3), Len(h1))]
                 ELSE [ok |-> FALSE, heap |-> h, value |-> ffi_default]
      ELSE [ok |-> TRUE, heap |-> h,
            value |-> IF task.tag = "Wait" THEN FfiWait ELSE FfiDone]

\* upload.rs 54-63 with each buffer handed out with into_raw as soon as its
\* CString is made, before the unwraps of the fields after it.
From_RawEarly(task, h) ==
    IF task.tag = "Upload"
      THEN LET document_id == CStringNew(task.request.document_id)
               path == CStringNew(task.request.path)
               body == CStringNew(to_json_string(task.request.body))
               headers == CStringNew(to_json_string(task.request.headers))
               h1 == into_raw(h, document_id)
               h2 == into_raw(h1, path)
               h3 == into_raw(h2, body)
               h4 == into_raw(h3, headers)
           IN  IF ~document_id.ok THEN [ok |-> FALSE, heap |-> h, value |-> ffi_default]
               ELSE IF ~path.ok THEN [ok |-> FALSE, heap |-> h1, value |-> ffi_default]
               ELSE IF ~body.ok THEN [ok |-> FALSE, heap |-> h2, value |-> ffi_default]
               ELSE IF ~headers.ok THEN [ok |-> FALSE, heap |-> h3, value |-> ffi_default]
               ELSE [ok |-> TRUE, heap |-> h4,
                     value |-> FfiUpload(Len(h1), Len(h2), Len(h3), Len(h4))]
      ELSE [ok |-> TRUE, heap |-> h,
            value |-> IF task.tag = "Wait" THEN FfiWait ELSE FfiDone]

\* upload.rs 46-70: From<PingUploadTask> for FfiPingUploadTask. Each field is
\* made a CString (54-58; the unwrap panics on Err, before any buffer is
\* handed out) and then handed out with into_raw (60-63).
From(task, h) ==
    IF task.tag = "Upload"
      THEN LET document_id == CStringNew(task.request.document_id)
               path == CStringNew(task.request.path)
               body == CStringNew(to_json_string(task.request.body))
               headers == CStringNew(to_json_string(task.request.headers))
               h1 == into_raw(h, document_id)
               h2 == into_raw(h1, path)
               h3 == into_raw(h2, body)
               h4 == into_raw(h3, headers)
           IN  IF document_id.ok /\ path.ok /\ body.ok /\ headers.ok
                 THEN [ok |-> TRUE, heap |-> h4,
                       value |-> FfiUpload(Len(h1), Len(h2), Len(h3), Len(h4))]
                 ELSE [ok |-> FALSE, heap |-> h, value |-> ffi_default]
      ELSE [ok |-> TRUE, heap |-> h,
            value |-> IF task.tag = "Wait" THEN FfiWait ELSE FfiDone]

\* crate::glean_str_free: frees the buffer unless the pointer is null.
glean_str_free(h, p) == IF p = 0 THEN h ELSE [h EXCEPT ![p].frees = @ + 1]

\* upload.rs 83-86 without the last line: the headers are not freed.
Drop_HeadersKept(v, h) ==
    IF v.tag = "Upload"
      THEN glean_str_free(glean_str_free(glean_str_free(h, v.document_id), v.path), v.body)
      ELSE h

\* upload.rs 72-90: Drop for FfiPingUploadTask.
Drop(v, h) ==
    IF v.tag = "Upload"
      THEN glean_str_free(
             glean_str_free(glean_str_free(glean_str_free(h, v.document_id), v.path), v.body),
             v.headers)
      ELSE h

\* poll_next_task(): the oldest pending ping as an Upload task, taken off the
\* store's queue; Wait when the store holds pings but is rate-limited; Done
\* when the queue is empty.
poll_next_task(limited) ==
    IF pending = <<>> THEN Done
    ELSE IF limited THEN Wait
    ELSE Upload(Request(Head(pending)))

\* The ping an Upload task was made from (0: none).
DocOf(document_id) ==
    IF \E d \in Docs : Request(d).document_id = document_id
      THEN CHOOSE d \in Docs : Request(d).document_id = document_id
      ELSE 0

\* report_result(document_id, result): the ping is no longer in flight; after a
\* recoverable failure it is pending again, else it leaves the store. A
\* document id that is not in flight is ignored.
report_result(document_id, result) ==
    LET d == DocOf(document_id)
    IN  IF d \in Docs /\ unreported[d] > 0
          THEN /\ unreported' = [unreported EXCEPT ![d] = @ - 1]
               /\ pending' = IF result = "recoverable" THEN Append(pending, d) ELSE pending
          ELSE UNCHANGED <<unreported, pending>>

\* A ping is submitted to the store.
Enqueue ==
    /\ enqueued < MaxDocs
    /\ enqueued' = enqueued + 1
    /\ pending' = Append(pending, enqueued + 1)
    /\ UNCHANGED <<unreported, tasks, heap, rlbVars, encVars, auxVars>>

\* The next task is polled and converted for the boundary; the converted value
\* is the producer's until it is handed over.
Poll(limited) ==
    /\ Len(tasks) < MaxPolls
    /\ LET task == poll_next_task(limited)
           d == DocOf(task.request.document_id)
           r == From(task, heap)
       IN  /\ pending' = IF task.tag = "Upload" THEN Tail(pending) ELSE pending
           /\ unreported' = IF task.tag = "Upload"
                              THEN [unreported EXCEPT ![d] = @ + 1] ELSE unreported
           /\ heap' = r.heap
           /\ tasks' = IF r.ok
                         THEN Append(tasks, [value |-> r.value, owner |-> "producer",
                                             doc |-> d, seen |-> <<>>])
                         ELSE tasks
    /\ UNCHANGED <<enqueued, rlbVars, encVars, auxVars>>

\* The value is written to the consumer's memory.
Transfer(k) ==
    /\ tasks[k].owner = "producer"
    /\ tasks' = [tasks EXCEPT ![k].owner = "consumer"]
    /\ UNCHANGED <<pending, enqueued, unreported, heap, rlbVars, encVars, auxVars>>

\* The consumer reads the task's document id back from its buffer.
ReadBack(k) ==
    /\ tasks[k].owner = "consumer"
    /\ tasks[k].value.tag = "Upload"
    /\ tasks[k].seen = <<>>
    /\ tasks' = [tasks EXCEPT ![k].seen = CStrFromPtr(heap, tasks[k].value.document_id)]
    /\ UNCHANGED <<pending, enqueued, unreported, heap, rlbVars, encVars, auxVars>>

\* The consumer's release of a task with the result of the upload: the value
\* is taken out of the consumer's memory, ffi_default left in its place, the
\* result reported for its document id, and the value dropped.
Release(k, result) ==
    /\ tasks[k].owner = "consumer"
    /\ LET v == tasks[k].value
       IN  /\ tasks' = [tasks EXCEPT ![k].value = ffi_default]
           /\ IF v.tag = "Upload"
                THEN report_result(CStrFromPtr(heap, v.document_id), result)
                ELSE UNCHANGED <<unreported, pending>>
           /\ heap' = Drop(v, heap)
    /\ UNCHANGED <<enqueued, rlbVars, encVars, auxVars>>

\* The value's owner destroys it without a release having been requested.
DropTask(k) ==
    /\ tasks[k].owner # "dropped"
    /\ heap' = Drop(tasks[k].value, heap)
    /\ tasks' = [tasks EXCEPT ![k].owner = "dropped"]
    /\ UNCHANGED <<pending, enqueued, unreported, rlbVars, encVars, auxVars>>

UploadInit ==
    /\ pending = <<>>
    /\ enqueued = 0
    /\ unreported = [d \in Docs |-> 0]
    /\ tasks = <<>>
    /\ heap = <<>>

UploadNext ==
    \/ Enqueue
    \/ \E limited \in BOOLEAN : Poll(limited)
    \/ \E k \in 1 .. Len(tasks) : Transfer(k)
    \/ \E k \in 1 .. Len(tasks) : ReadBack(k)
    \/ \E k \in 1 .. Len(tasks) :
         \E result \in {"success", "recoverable", "unrecoverable"} : Release(k, result)
    \/ \E k \in 1 .. Len(tasks) : DropTask(k)

\* ------------------------------------- one task converted for the boundary
MaxStrLen == 2      \* length of the strings of a request

\* The strings a request's fields are drawn from: bytes NUL and "1".
Strs == UNION {[1 .. n -> {0, 49}] : n \in 0 .. MaxStrLen}
Requests == [document_id : Strs, path : Strs, body : Strs, headers : Strs]

NoConv ==
    [pc |-> "idle", task |-> Done, value |-> ffi_default, heap |-> <<>>, panicked |-> FALSE]

\* upload.rs 100-102
into_ffi_value(v) == v

\* The task is converted inside the boundary's call wrapper: the value of From
\* crosses the boundary, and ffi_default (upload.rs 96-98) when From panicked.
IntoFfi ==
    /\ conv.pc = "task"
    /\ LET r == From(conv.task, conv.heap)
       IN  conv' = [conv EXCEPT !.pc = "crossed",
                                !.panicked = ~r.ok,
                                !.value = IF r.ok THEN into_ffi_value(r.value)
                                                  ELSE ffi_default,
                                !.heap = r.heap]
    /\ UNCHANGED <<rlbVars, uploadVars, encVars, run>>

\* The consumer releases the value it was given (upload.rs 72-90).
ConvRelease ==
    /\ conv.pc = "crossed"
    /\ conv' = [conv EXCEPT !.pc = "released", !.heap = Drop(conv.value, conv.heap)]
    /\ UNCHANGED <<rlbVars, uploadVars, encVars, run>>

ConvInit ==
    \E task \in {Upload(request) : request \in Requests} \cup {Wait, Done} :
        conv = [NoConv EXCEPT !.pc = "task", !.task = task]

ConvNext == IntoFfi \/ ConvRelease

\* ------------------------------------------- scalar encoding of UploadResult
UPLOAD_RESULT_RECOVERABLE == 1
UPLOAD_RESULT_UNRECOVERABLE == 2
UPLOAD_RESULT_HTTP_STATUS == 32768

MinHttpStatus == 100
MaxHttpStatus == 599

RECURSIVE BitAnd(_, _)
BitAnd(a, b) ==
    IF a = 0 \/ b = 0 THEN 0
    ELSE (a % 2) * (b % 2) + 2 * BitAnd(a \div 2, b \div 2)

RECURSIVE BitOr(_, _)
BitOr(a, b) ==
    IF a = 0 THEN b
    ELSE IF b = 0 THEN a
    ELSE (IF a % 2 = 1 \/ b % 2 = 1 THEN 1 ELSE 0) + 2 * BitOr(a \div 2, b \div 2)

NoResult == [kind |-> "none", code |-> 0]
HttpStatus(c) == [kind |-> "HttpStatus", code |-> c]
RecoverableFailure == [kind |-> "RecoverableFailure", code |-> 0]
UnrecoverableFailure == [kind |-> "UnrecoverableFailure", code |-> 0]

\* upload.rs 23-26 with the marker in the bits the response codes use (0x80).
EncodeResult_LowMarker(r) ==
    IF r.kind = "HttpStatus" THEN BitOr(2 ^ 7, r.code)
    ELSE IF r.kind = "RecoverableFailure" THEN UPLOAD_RESULT_RECOVERABLE
    ELSE UPLOAD_RESULT_UNRECOVERABLE

\* upload.rs 17-26: the u32 passed over the boundary for an upload result; "the
\* actual response code is encoded in the lower bits" of an HTTP status.
EncodeResult(r) ==
    IF r.kind = "HttpStatus" THEN BitOr(UPLOAD_RESULT_HTTP_STATUS, r.code)
    ELSE IF r.kind = "RecoverableFailure" THEN UPLOAD_RESULT_RECOVERABLE
    ELSE UPLOAD_RESULT_UNRECOVERABLE

Encode ==
    /\ encoded = 0
    /\ status # NoResult
    /\ encoded' = EncodeResult(status)
    /\ UNCHANGED <<status, rlbVars, uploadVars, auxVars>>

EncIdle == status = NoResult /\ encoded = 0

EncInit ==
    /\ status \in {HttpStatus(c) : c \in MinHttpStatus .. MaxHttpStatus}
                    \cup {RecoverableFailure, UnrecoverableFailure}
    /\ encoded = 0

\* ------------------------------------ one startup thread, step by step
\* The closure of lib.rs 128-227 run by one thread, one call at a time. Its
\* inputs are the answers of the engine and the configuration; run.log records
\* every call made. A local not yet assigned is {}, one assigned v is {v}.
NoRun ==
    [pc |-> "idle", new_ok |-> FALSE, setup_ok |-> FALSE, first |-> FALSE,
     glean |-> NoGlean, dirty_flag |-> {}, is_first_run |-> {}, log |-> <<>>]

Did(r, call, pc) == [r EXCEPT !.log = Append(@, call), !.pc = pc]

\* The engine's calls of lib.rs 169-219.
is_dirty_flag_set(g) == g.dirty
set_dirty_flag(g, v) == [g EXCEPT !.dirty = v]
register_builtin_pings(g) == [g EXCEPT !.builtins = TRUE]
clear_application_lifetime_metrics(g) == [g EXCEPT !.core_metrics = 0]

\* lib.rs 138-143
StartGleanNew ==
    /\ run.pc = "new"
    /\ run' = Did(run, "Glean::new", IF run.new_ok THEN "setup_glean" ELSE "failed")
    /\ UNCHANGED <<rlbVars, uploadVars, encVars, conv>>

\* lib.rs 147-149
StartSetupGlean ==
    /\ run.pc = "setup_glean"
    /\ run' = Did(run, "setup_glean", IF run.setup_ok THEN "setup_state" ELSE "failed")
    /\ UNCHANGED <<rlbVars, uploadVars, encVars, conv>>

\* lib.rs 154-157
StartSetupState ==
    /\ run.pc = "setup_state"
    /\ run' = Did(run, "setup_state", "read_dirty")
    /\ UNCHANGED <<rlbVars, uploadVars, encVars, conv>>

\* lib.rs 169: let dirty_flag = glean.is_dirty_flag_set();
StartReadDirty ==
    /\ run.pc = "read_dirty"
    /\ run' = Did([run EXCEPT !.dirty_flag = {is_dirty_flag_set(run.glean)}],
                  "is_dirty_flag_set", "clear_dirty")
    /\ UNCHANGED <<rlbVars, uploadVars, encVars, conv>>

\* lib.rs 170: glean.set_dirty_flag(false);
StartClearDirty ==
    /\ run.pc = "clear_dirty"
    /\ run' = Did([run EXCEPT !.glean = set_dirty_flag(@, FALSE)],
                  "set_dirty_flag", "builtins")
    /\ UNCHANGED <<rlbVars, uploadVars, encVars, conv>>

\* lib.rs 177-179
StartRegisterPings ==
    /\ run.pc = "builtins"
    /\ run' = Did([run EXCEPT !.glean = register_builtin_pings(@)],
                  "register_ping_type", "is_first_run")
    /\ UNCHANGED <<rlbVars, uploadVars, encVars, conv>>

\* lib.rs 187-188: let is_first_run = glean.is_first_run(); if is_first_run
StartIsFirstRun ==
    /\ run.pc = "is_first_run"
    /\ run' = Did([run EXCEPT !.is_first_run = {run.first}], "is_first_run",
                  IF run.first THEN "core_first" ELSE "ready")
    /\ UNCHANGED <<rlbVars, uploadVars, encVars, conv>>

\* lib.rs 189
StartCoreMetricsFirst ==
    /\ run.pc = "core_first"
    /\ run' = Did([run EXCEPT !.glean = initialize_core_metrics(@, RustBindingsState(1))],
                  "initialize_core_metrics", "ready")
    /\ UNCHANGED <<rlbVars, uploadVars, encVars, conv>>

\* lib.rs 193-217 without the test of 217: the application lifetime metrics
\* are cleared and set again in every run.
StartReady_Unguarded ==
    /\ run.pc = "ready"
    /\ run' = Did(run, "on_ready_to_submit_pings", "clear_lifetime")
    /\ UNCHANGED <<rlbVars, uploadVars, encVars, conv>>

\* lib.rs 193-217: on_ready_to_submit_pings; the two ifs of 198-212 have
\* empty bodies; if !is_first_run
StartReady ==
    /\ run.pc = "ready"
    /\ run' = Did(run, "on_ready_to_submit_pings",
                  IF run.is_first_run = {FALSE} THEN "clear_lifetime" ELSE "flush")
    /\ UNCHANGED <<rlbVars, uploadVars, encVars, conv>>

\* lib.rs 218
StartClearLifetime ==
    /\ run.pc = "clear_lifetime"
    /\ run' = Did([run EXCEPT !.glean = clear_application_lifetime_metrics(@)],
                  "clear_application_lifetime_metrics", "core_again")
    /\ UNCHANGED <<rlbVars, uploadVars, encVars, conv>>

\* lib.rs 219
StartCoreMetricsAgain ==
    /\ run.pc = "core_again"
    /\ run' = Did([run EXCEPT !.glean = initialize_core_metrics(@, RustBindingsState(1))],
                  "initialize_core_metrics", "flush")
    /\ UNCHANGED <<rlbVars, uploadVars, encVars, conv>>

\* lib.rs 223-226
StartFlush ==
    /\ run.pc = "flush"
    /\ run' = Did(run, "flush_init", "done")
    /\ UNCHANGED <<rlbVars, uploadVars, encVars, conv>>

\* The thread is spawned (lib.rs 128) with some configuration and data
\* directory: whether Glean::new and setup_glean succeed, the upload setting,
\* the persisted dirty flag and whether this is the first run.
RunInit ==
    \E new_ok, setup_ok, first, upload, dirty \in BOOLEAN :
        run = [NoRun EXCEPT !.pc = "new", !.new_ok = new_ok, !.setup_ok = setup_ok,
                            !.first = first, !.glean = NewGlean(upload, dirty)]

StartupNext ==
    \/ StartGleanNew
    \/ StartSetupGlean
    \/ StartSetupState
    \/ StartReadDirty
    \/ StartClearDirty
    \/ StartRegisterPings
    \/ StartIsFirstRun
    \/ StartCoreMetricsFirst
    \/ StartReady
    \/ StartClearLifetime
    \/ StartCoreMetricsAgain
    \/ StartFlush

\* ---------------------------------------------------------- specification
RlbInit ==
    /\ INITIALIZE_CALLED = FALSE
    /\ STATE_CELL = NoState
    /\ GLEAN = NoGlean
    /\ gleanLock = {}
    /\ stateLock = {}
    /\ ipc = [i \in InitCalls |-> "idle"]
    /\ spc = [i \in InitCalls |-> "unspawned"]
    /\ queue = <<>>
    /\ queueState = "Buffering"
    /\ flushedAt = 0
    /\ wpc = "idle"
    /\ cur = NoOp
    /\ admitted = <<>>
    /\ executed = <<>>
    /\ calls = [k \in Kinds |-> 0]
    /\ called = [c \in Callers |-> FALSE]

AuxIdle == conv = NoConv /\ run = NoRun

Init == RlbInit /\ UploadInit /\ EncIdle /\ AuxIdle

Next ==
    \/ \E i \in InitCalls : InitCheck(i)
    \/ \E i \in InitCalls : InitStore(i)
    \/ \E i \in InitCalls : GleanNew(i)
    \/ \E i \in InitCalls : SetupStateCheck(i)
    \/ \E i \in InitCalls : SetupStateSet(i)
    \/ \E i \in InitCalls : SetupStateReplace(i)
    \/ \E i \in InitCalls : BlockLockGlean(i)
    \/ \E i \in InitCalls : BlockLockState(i)
    \/ \E i \in InitCalls : BlockBody(i)
    \/ \E i \in InitCalls : FlushInit(i)
    \/ \E i \in InitCalls : FlushReturn(i)
    \/ \E c \in Callers, enabled \in BOOLEAN : set_upload_enabled(c, enabled)
    \/ \E c \in Callers : register_ping_type(c)
    \/ \E c \in Callers : submit_ping_by_name(c)
    \/ WorkerTake
    \/ WorkerLockState
    \/ WorkerRun

Spec == Init /\ [][Next]_vars

\* The upload task protocol and the FFI ownership of its tasks.
UploadStart == RlbInit /\ UploadInit /\ EncIdle /\ AuxIdle
UploadSpec == UploadStart /\ [][UploadNext]_vars

\* Scheduling: the dispatcher's worker thread keeps running, and so does a
\* thread that holds a mutex (lib.rs 162-221) until it has released it.
Fairness ==
    /\ WF_vars(WorkerTake)
    /\ WF_vars(WorkerLockState)
    /\ WF_vars(WorkerRun)
    /\ \A i \in InitCalls : WF_vars(BlockLockState(i)) /\ WF_vars(BlockBody(i))

LiveSpec == Spec /\ Fairness

\* Scheduling: as in LiveSpec, and a thread that waits for a mutex is woken
\* when the mutex stays free.
LockFairness ==
    \A i \in InitCalls : WF_vars(BlockLockGlean(i)) /\ WF_vars(SetupStateReplace(i))

LockSpec == LiveSpec /\ LockFairness

\* One task converted for the boundary, for every task.
ConvStart == RlbInit /\ UploadInit /\ EncIdle /\ run = NoRun /\ ConvInit
ConvSpec == ConvStart /\ [][ConvNext]_vars

\* One startup thread, statement by statement.
StartupStart == RlbInit /\ UploadInit /\ EncIdle /\ conv = NoConv /\ RunInit
StartupSpec == StartupStart /\ [][StartupNext]_vars

\* The encoding of every upload result.
EncStart == RlbInit /\ UploadInit /\ EncInit /\ AuxIdle
EncSpec == EncStart /\ [][Encode]_vars

\* ------------------------------------------------------------------ claims
Spawned == {i \in InitCalls : spc[i] # "unspawned"}
Pending == (IF cur = NoOp THEN <<>> ELSE <<cur>>) \o queue

\* C1: of the calls of initialize made while INITIALIZE_CALLED is false, exactly
\* one spawns the startup sequence, so Glean::new runs at most once per process.
C1_AtMostOneStartup == Cardinality(Spawned) <= 1

\* C2: every operation launched before flush_init runs after it, exactly once,
\* none dropped or duplicated, in queue admission order (so each caller's own
\* submissions run in the order that caller made them).
C2_BufferedRunInOrder ==
    \* nothing runs while the queue buffers
    /\ queueState = "Buffering" => executed = <<>> /\ cur = NoOp
    \* the operations run are the first admitted, each once, in admission order
    /\ \A n \in 1 .. Len(executed) : executed[n] = n
    \* those not yet run are all still pending, in admission order: none dropped
    /\ Pending = SubSeq(admitted, Len(executed) + 1, Len(admitted))
    \* each caller's operations run in the order the caller made them
    /\ \A a, b \in 1 .. Len(executed) :
          a < b /\ admitted[executed[a]].caller = admitted[executed[b]].caller
             => executed[a] < executed[b]
    \* when flush_init has returned, every operation buffered before it has run
    /\ queueState = "Passthrough" => Len(executed) >= flushedAt

C2_Witness ==
    /\ queueState = "Passthrough"
    /\ flushedAt = MaxOps
    /\ Len(executed) = MaxOps
    /\ \E a, b \in 1 .. MaxOps : admitted[a].caller # admitted[b].caller

\* C3: a call of initialize made after a call of initialize has returned is
\* rejected: it spawns no startup thread (so no second Glean::new, setup_glean,
\* setup_state or flush_init) and leaves INITIALIZE_CALLED, STATE and the queue
\* as they were.
C3_SecondCallRejected ==
    /\ [](\A i \in InitCalls : ipc[i] = "rejected" => spc[i] = "unspawned")
    /\ [][\A i \in InitCalls :
            (/\ ipc[i] = "idle"
             /\ ipc'[i] # "idle"
             /\ \E j \in InitCalls : ipc[j] = "returned")
            => /\ ipc'[i] = "rejected"
               /\ UNCHANGED <<INITIALIZE_CALLED, STATE_CELL, GLEAN, spc, queue,
                              queueState, flushedAt, admitted, executed>>]_vars

C3_Witness ==
    \E i, j \in InitCalls :
        ipc[i] = "returned" /\ ipc[j] = "rejected" /\ spc[j] = "unspawned"

\* C4: when the startup thread fails in Glean::new or setup_glean, STATE stays
\* unset, the queue stays in Buffering and no launched operation ever runs.
C4_FailedStartupStaysUnready ==
    (\E i \in InitCalls : spc[i] = "failed")
        => ~STATE_CELL.set /\ queueState = "Buffering" /\ executed = <<>>

\* C5 as stated: set_upload_enabled, register_ping_type and submit_ping_by_name
\* are accepted in every state, each call submitting exactly one operation.
C5_EveryCallLaunches == Len(admitted) = TotalCalls

\* C5 as amended: register_ping_type and submit_ping_by_name submit exactly one
\* operation in every state; set_upload_enabled submits exactly one when
\* INITIALIZE_CALLED is true and none, changing nothing, when it is false.
C5_CallsLaunchUnlessUninitialized ==
    [][/\ \A k \in {"register_ping_type", "submit_ping_by_name"} :
            calls'[k] # calls[k]
              => /\ admitted' = Append(admitted, admitted'[Len(admitted')])
                 /\ admitted'[Len(admitted')].kind = k
                 /\ queue' = Append(queue, admitted'[Len(admitted')])
       /\ calls'["set_upload_enabled"] # calls["set_upload_enabled"]
              => IF INITIALIZE_CALLED
                   THEN /\ admitted' = Append(admitted, admitted'[Len(admitted')])
                        /\ admitted'[Len(admitted')].kind = "set_upload_enabled"
                        /\ queue' = Append(queue, admitted'[Len(admitted')])
                   ELSE UNCHANGED <<admitted, queue, GLEAN, STATE_CELL>>]_vars

C5_Witness ==
    /\ ~INITIALIZE_CALLED
    /\ calls["set_upload_enabled"] = 1
    /\ calls["register_ping_type"] + calls["submit_ping_by_name"] = 1
    /\ Len(admitted) = 1
    /\ Len(queue) = 1

\* C6: no caller-submitted operation runs against an engine on which the
\* built-in pings are not registered.
C6_OpsRunAfterBuiltins == wpc \in {"lock_state", "run"} => GLEAN.builtins

\* Upload tasks returned and not yet answered: the value still carries its task.
InFlight == {k \in 1 .. Len(tasks) : tasks[k].doc # 0 /\ tasks[k].value.tag = "Upload"}
Live == {k \in InFlight : tasks[k].owner # "dropped"}
Pointers(v) == {v.document_id, v.path, v.body, v.headers}

\* C7: at most one Upload task per document id is in flight at any time:
\* poll_next_task returns no Upload task for a ping that is unreported, and the
\* tasks in flight carry, over the boundary, the document ids of their own
\* pings, no two the same.
C7_OneUploadPerDocument ==
    /\ \A d \in Docs : unreported[d] <= 1
    /\ \A j, k \in InFlight : j # k => tasks[j].doc # tasks[k].doc
    /\ \A k \in Live :
         CStrFromPtr(heap, tasks[k].value.document_id) = Request(tasks[k].doc).document_id
    /\ \A j, k \in Live :
         j # k => CStrFromPtr(heap, tasks[j].value.document_id)
                    # CStrFromPtr(heap, tasks[k].value.document_id)
    /\ \A k \in 1 .. Len(tasks) :
         tasks[k].seen # <<>> => tasks[k].seen = Request(tasks[k].doc).document_id

\* A ping is returned again after its recoverable failure was reported, while
\* another ping is in flight.
C7_Witness ==
    /\ Len(tasks) = 3
    /\ tasks[1].doc # 0 /\ tasks[1].value.tag = "Done"
    /\ tasks[3].doc = tasks[1].doc /\ 3 \in Live
    /\ tasks[2].doc # 0 /\ 2 \in Live

\* C8: a conversion allocates four buffers for Upload and none for Wait or
\* Done; a buffer is never freed twice, and is unfreed exactly while one value
\* that has been neither released nor dropped points to it.
C8_BuffersReleasedOnce ==
    /\ Len(heap) = 4 * Cardinality({k \in 1 .. Len(tasks) : tasks[k].doc # 0})
    /\ \A k \in Live : Cardinality(Pointers(tasks[k].value)) = 4
    /\ \A p \in 1 .. Len(heap) :
         /\ heap[p].frees <= 1
         /\ heap[p].frees = 0 <=>
              Cardinality({k \in Live : p \in Pointers(tasks[k].value)}) = 1

\* Two Upload tasks and a Wait task were converted; one Upload task was read
\* back and released by the consumer, the other dropped, and every buffer is
\* freed.
C8_Witness ==
    /\ Len(heap) = 8
    /\ \A p \in 1 .. Len(heap) : heap[p].frees = 1
    /\ \E k \in 1 .. Len(tasks) :
         tasks[k].seen # <<>> /\ tasks[k].value.tag = "Done" /\ tasks[k].owner = "consumer"
    /\ \E k \in 1 .. Len(tasks) : tasks[k].doc # 0 /\ tasks[k].owner = "dropped"
    /\ \E k \in 1 .. Len(tasks) : tasks[k].value.tag = "Wait"

\* The category and response code a receiver reads from the scalar: the marker
\* of an HTTP status is tested first, the two failures are compared for.
DecodeResult(u) ==
    IF BitAnd(u, UPLOAD_RESULT_HTTP_STATUS) # 0 THEN HttpStatus(u - UPLOAD_RESULT_HTTP_STATUS)
    ELSE IF u = UPLOAD_RESULT_RECOVERABLE THEN RecoverableFailure
    ELSE IF u = UPLOAD_RESULT_UNRECOVERABLE THEN UnrecoverableFailure
    ELSE NoResult

\* C9 as stated: the encoding of an HTTP status sets no bit of the recoverable
\* flag and no bit of the unrecoverable flag.
C9_DisjointBitRegions ==
    (encoded # 0 /\ status.kind = "HttpStatus") =>
        /\ BitAnd(encoded, UPLOAD_RESULT_RECOVERABLE) = 0
        /\ BitAnd(encoded, UPLOAD_RESULT_UNRECOVERABLE) = 0

\* C9: the marker 0x8000 is set in the encoding of every HTTP status and in
\* neither failure's; below it the encoding of a status is its response code,
\* so that testing the marker first and then comparing for the two failure
\* values tells the three categories apart and gives the response code back.
C9_MarkerSeparatesCategories ==
    encoded # 0 =>
        /\ (BitAnd(encoded, UPLOAD_RESULT_HTTP_STATUS) # 0) <=> (status.kind = "HttpStatus")
        /\ status.kind = "HttpStatus" => encoded = UPLOAD_RESULT_HTTP_STATUS + status.code
        /\ DecodeResult(encoded) = status

\* An HTTP status whose response code has the bits of both failure flags set
\* is encoded.
C9_Witness ==
    /\ status.kind = "HttpStatus"
    /\ encoded # 0
    /\ BitAnd(status.code, UPLOAD_RESULT_RECOVERABLE) # 0
    /\ BitAnd(status.code, UPLOAD_RESULT_UNRECOVERABLE) # 0

\* Whether the n-th admitted operation has run.
HasRun(n) == \E m \in 1 .. Len(executed) : executed[m] = n

\* C10: once flush_init has completed, every operation submitted afterwards is
\* eventually executed, with no further flush_init; the operations submitted
\* after the flush run in the order of their admission, one at a time: an
\* admitted operation is in the queue, or the one the worker runs, or has run.
C10_PostFlushOpsRun ==
    /\ \A n \in 1 .. MaxOps :
         (queueState = "Passthrough" /\ n > flushedAt /\ Len(admitted) >= n) ~> HasRun(n)
    /\ [](\A a, b \in 1 .. Len(executed) :
            (a < b /\ executed[a] > flushedAt /\ executed[b] > flushedAt)
               => executed[a] < executed[b])
    /\ [](queueState = "Passthrough" =>
            Len(queue) + (IF wpc = "idle" THEN 0 ELSE 1) + Len(executed) = Len(admitted))

\* Nothing was buffered when flush_init was called, and two operations
\* submitted since have both run.
C10_Witness ==
    /\ queueState = "Passthrough"
    /\ flushedAt = 0
    /\ Len(admitted) = 2
    /\ executed = <<1, 2>>

\* C11: a call of flush_init made when the queue is already flushed is an error
\* that the startup thread only logs: the thread ends normally, and the queue,
\* its state, and the operations admitted, being run and run are as they were.
C11_SecondFlushChangesNothing ==
    [][\A i \in InitCalls :
         (spc[i] = "flush" /\ spc'[i] # "flush" /\ queueState # "Buffering")
            => /\ spc'[i] = "done"
               /\ UNCHANGED <<queueState, queue, flushedAt, admitted, executed, cur, wpc>>]_vars

\* Both startup threads have called flush_init, the second call after the
\* first had returned, and an operation run before is still run once.
C11_Witness ==
    /\ \A i \in InitCalls : spc[i] = "done"
    /\ queueState = "Passthrough"
    /\ Len(executed) = MaxOps

\* C12: INITIALIZE_CALLED is false until a call of initialize stores it, true
\* once any call of initialize has returned, and never set back to false.
C12_FlagMonotonic ==
    /\ []((\A i \in InitCalls : ipc[i] = "idle") => ~INITIALIZE_CALLED)
    /\ [](\A i \in InitCalls : ipc[i] \in {"rejected", "returned"} => INITIALIZE_CALLED)
    /\ [][INITIALIZE_CALLED => INITIALIZE_CALLED']_vars

\* One call has returned with its startup thread failed, the other was
\* rejected.
C12_Witness ==
    \E i, j \in InitCalls :
        /\ ipc[i] = "returned" /\ spc[i] = "failed"
        /\ ipc[j] = "rejected"
        /\ INITIALIZE_CALLED

StartupOrder(first) ==
    <<"Glean::new", "setup_glean", "setup_state", "is_dirty_flag_set", "set_dirty_flag",
      "register_ping_type", "is_first_run">>
    \o (IF first THEN <<"initialize_core_metrics">> ELSE <<>>)
    \o <<"on_ready_to_submit_pings">>
    \o (IF ~first THEN <<"clear_application_lifetime_metrics", "initialize_core_metrics">>
                  ELSE <<>>)
    \o <<"flush_init">>

IsPrefix(a, b) == Len(a) <= Len(b) /\ a = SubSeq(b, 1, Len(a))
Times(call, log) == Cardinality({n \in 1 .. Len(log) : log[n] = call})

\* C14: the calls a startup thread has made are the first of the order above,
\* and all of it once the thread is done; the dirty flag it remembers is the
\* value the engine held before set_dirty_flag(false); initialize_core_metrics
\* has run exactly once when the thread is done; and the engine is left as the
\* startup block of the concurrent model leaves it.
C14_StartupOrder ==
    /\ IsPrefix(run.log, StartupOrder(run.first))
    /\ run.pc = "done" =>
         /\ run.log = StartupOrder(run.first)
         /\ Times("initialize_core_metrics", run.log) = 1
         /\ \E upload \in BOOLEAN, dirty \in run.dirty_flag :
              run.glean = StartupBlock(NewGlean(upload, dirty),
                                       RustBindingsState(1), run.first)
    /\ run.dirty_flag # {} =>
         /\ ~run.glean.dirty \/ run.pc = "clear_dirty"
         /\ run.pc = "clear_dirty" => run.dirty_flag = {run.glean.dirty}
    /\ run.pc = "failed" => Len(run.log) <= 2

\* A run that is not the first, with the dirty flag set, is done.
C14_Witness ==
    /\ run.pc = "done"
    /\ ~run.first
    /\ run.dirty_flag = {TRUE}
    /\ run.glean.core_metrics # 0

\* C15: a call of set_upload_enabled made while INITIALIZE_CALLED is false,
\* also when a startup thread is already running, launches nothing and leaves
\* the engine, STATE and the queue as they were; a call made while it is true
\* appends exactly one set_upload_enabled operation to the queue. So no
\* set_upload_enabled operation is ever admitted while the flag is false.
C15_UploadEnabledNeedsFlag ==
    /\ [](~INITIALIZE_CALLED =>
            \A n \in 1 .. Len(admitted) : admitted[n].kind # "set_upload_enabled")
    /\ [][calls'["set_upload_enabled"] = calls["set_upload_enabled"] + 1
            => IF INITIALIZE_CALLED
                 THEN /\ Len(queue') = Len(queue) + 1
                      /\ SubSeq(queue', 1, Len(queue)) = queue
                      /\ queue'[Len(queue')].kind = "set_upload_enabled"
                      /\ Len(admitted') = Len(admitted) + 1
                 ELSE /\ queue' = queue /\ admitted' = admitted
                      /\ GLEAN' = GLEAN /\ STATE_CELL' = STATE_CELL
                      /\ queueState' = queueState /\ executed' = executed]_vars

\* set_upload_enabled was called, and dropped, after a startup thread had
\* published its engine and before initialize stored the flag.
C15_Witness ==
    /\ ~INITIALIZE_CALLED
    /\ GLEAN.set
    /\ calls["set_upload_enabled"] = 1
    /\ admitted = <<>>

\* The threads inside a with_glean / with_glean_mut closure.
Inside ==
    {Startup(i) : i \in {j \in InitCalls : spc[j] \in {"block_state", "block_body"}}}
      \cup (IF wpc \in {"lock_state", "run"} THEN {Worker} ELSE {})

\* C16: at most one thread is inside a with_glean / with_glean_mut closure, and
\* it is the holder of the engine mutex; the STATE mutex is held only by that
\* thread, and is held by it while the startup block or a set_upload_enabled
\* operation runs; so no mutex is held by the worker between two operations or
\* while it is idle. The engine and STATE change only in a step of the holder
\* of their mutex, or of setup_glean / setup_state when the mutex is free.
C16_StateUnderExclusion ==
    /\ [](/\ Cardinality(Inside) <= 1
          /\ gleanLock = Inside
          /\ stateLock \subseteq gleanLock
          /\ \A i \in InitCalls : spc[i] = "block_body" => stateLock = {Startup(i)}
          /\ (wpc = "run" /\ cur.kind = "set_upload_enabled") => stateLock = {Worker}
          /\ wpc = "idle" => Worker \notin (gleanLock \cup stateLock))
    /\ [][/\ GLEAN' # GLEAN =>
               \/ gleanLock = {}
               \/ gleanLock = {Worker} /\ wpc = "run" /\ wpc' = "idle"
               \/ \E i \in InitCalls :
                    gleanLock = {Startup(i)} /\ spc[i] = "block_body" /\ spc'[i] = "flush"
          /\ STATE_CELL' # STATE_CELL => stateLock = {}
          /\ (wpc = "run" /\ wpc' = "idle") => gleanLock' = {} /\ stateLock' = {}
          /\ \A i \in InitCalls :
               (spc[i] = "block_body" /\ spc'[i] = "flush") => gleanLock' = {} /\ stateLock' = {}
         ]_vars

\* A set_upload_enabled operation runs holding both mutexes while a startup
\* thread waits for the engine mutex.
C16_Witness ==
    /\ wpc = "run"
    /\ cur.kind = "set_upload_enabled"
    /\ gleanLock = {Worker}
    /\ stateLock = {Worker}
    /\ \E i \in InitCalls : spc[i] = "block"

\* Whether a field of the task cannot be made a C string: document_id or path
\* holds a NUL byte (body and headers are JSON text, in which NUL is escaped).
CannotConvert(t) ==
    /\ t.tag = "Upload"
    /\ Contains(t.request.document_id, 0) \/ Contains(t.request.path, 0)

\* C17: when the conversion of a task fails, Done crosses the boundary and no
\* buffer stays allocated; when it does not fail the variant is the task's, an
\* Upload value's buffers hold the task's fields, and releasing the value frees
\* every buffer once.
C17_FailedConversionGivesDone ==
    conv.pc \in {"crossed", "released"} =>
        /\ conv.panicked <=> CannotConvert(conv.task)
        /\ IF CannotConvert(conv.task)
             THEN /\ conv.value = FfiDone
                  /\ \A p \in 1 .. Len(conv.heap) : conv.heap[p].frees >= 1
             ELSE /\ conv.value.tag = conv.task.tag
                  /\ conv.task.tag = "Upload" =>
                       /\ Len(conv.heap) = 4
                       /\ CStrFromPtr(conv.heap, conv.value.document_id)
                            = conv.task.request.document_id
                       /\ CStrFromPtr(conv.heap, conv.value.path) = conv.task.request.path
                       /\ CStrFromPtr(conv.heap, conv.value.body)
                            = to_json_string(conv.task.request.body)
                       /\ CStrFromPtr(conv.heap, conv.value.headers)
                            = to_json_string(conv.task.request.headers)
                  /\ conv.task.tag # "Upload" => conv.heap = <<>>
        /\ conv.pc = "released" => \A p \in 1 .. Len(conv.heap) : conv.heap[p].frees = 1

\* The conversion failed on the path, after the document id was made a C
\* string, and Done was given to the consumer.
C17_Witness ==
    /\ conv.pc = "crossed"
    /\ conv.task.tag = "Upload"
    /\ conv.task.request.document_id = <<49>>
    /\ Contains(conv.task.request.path, 0)
    /\ Contains(conv.task.request.body, 0)
    /\ conv.panicked
    /\ conv.value = FfiDone

\* The threads that wait for the engine mutex and for the STATE mutex.
WantGlean ==
    {Startup(i) : i \in {j \in InitCalls : spc[j] = "block"}}
      \cup (IF wpc = "idle" /\ queue # <<>> /\ queueState # "Buffering" THEN {Worker} ELSE {})
WantState ==
    {Startup(i) : i \in {j \in InitCalls : spc[j] \in {"state_lock", "block_state"}}}
      \cup (IF wpc = "lock_state" THEN {Worker} ELSE {})

\* C18: a thread that holds the STATE mutex holds the engine mutex too, which
\* it took first; setup_state waits for the STATE mutex holding nothing; no
\* holder of a mutex that another thread waits for is itself waiting for a
\* mutex it cannot get; and every thread that requests a mutex obtains it.
C18_NoDeadlock ==
    /\ [](/\ stateLock \subseteq gleanLock
          /\ \A i \in InitCalls :
               spc[i] = "state_lock" => Startup(i) \notin (gleanLock \cup stateLock)
          /\ WantGlean \cap (gleanLock \cup stateLock) = {}
          /\ \A t \in WantState \cap gleanLock : stateLock = {}
          /\ \A t \in WantState \ gleanLock : stateLock \cap (WantGlean \cup WantState) = {})
    /\ \A i \in InitCalls :
         /\ (spc[i] = "block") ~> (spc[i] = "block_state")
         /\ (spc[i] = "block_state") ~> (spc[i] = "block_body")
         /\ (spc[i] = "state_lock") ~> (spc[i] = "block")
    /\ (wpc = "lock_state") ~> (wpc = "run")
    /\ (Worker \in WantGlean) ~> (wpc # "idle")

\* The worker holds the engine mutex and waits for the STATE mutex while one
\* startup thread waits for the engine mutex.
C18_Witness ==
    /\ wpc = "lock_state"
    /\ gleanLock = {Worker}
    /\ \E i \in InitCalls : spc[i] = "block"

\* C19: no queued operation panics on missing global state: the worker never
\* panics, and whenever the queue lets operations run the engine is published
\* and STATE is set, so the expect of with_glean / with_glean_mut and the
\* unwrap of global_state succeed in every operation.
C19_OpsFindGlobalState ==
    /\ wpc # "panicked"
    /\ queueState # "Buffering" => GLEAN.set /\ STATE_CELL.set
    /\ wpc \in {"lock_state", "run"} => GLEAN.set /\ STATE_CELL.set

\* An operation launched before any call of initialize had returned has run.
C19_Witness ==
    /\ ~INITIALIZE_CALLED
    /\ executed # <<>>
    /\ admitted[executed[1]].kind \in {"register_ping_type", "submit_ping_by_name"}
    /\ GLEAN.set
    /\ STATE_CELL.set

====
